---- MODULE Spec2Model ----
(***************************************************************************)
(* The mock federated-analytics client DemClient (src/src/lib/dem-client.ts) *)
(* as a state machine: the configuration record, the request methods, the   *)
(* substring dispatch of getMockResponse, and the requests in flight; and   *)
(* the pages that call it (Dashboard, Drivers, What-If, Settings): their    *)
(* React state, their handlers from await to await, and the debounce timer. *)
(*                                                                          *)
(* Strings that the code searches with String.includes are sequences of     *)
(* one-character strings, so that includes is a real substring search.      *)
(* Configuration values are never searched and stay atomic strings.         *)
(* Fractions are integers: probabilities and hazards in thousandths,        *)
(* feature means in tenths.                                                 *)
(***************************************************************************)
EXTENDS Integers, Sequences, FiniteSets, TLC

VARIABLES
    config,      \* DemClient.config: Null or a record of configuration fields
    calls,       \* per slot: the async frame of a request, or its settled promise
    lastUpdate,  \* history: the argument of the most recent updateConfig call
    lastNamed,   \* history: per property, the value of the last update naming it
    page         \* the state of the mounted page component, NoPage when none is

vars == <<config, calls, lastUpdate, lastNamed, page>>

----------------------------------------------------------------------------
(* Bounds of the model *)

\* a projectId is the concatenation of at most this many chunks of IdChunks
MaxIdChunks == 2
\* a path handed to fetch directly is at most this many chunks of PathChunks
MaxPathChunks == 2
\* a partial configuration names at most this many fields
MaxNamed == 2
\* requests that may be in flight, or settled and not yet replaced, at once
MaxSlots == 2
\* the clock of the What-If page advances by at most this many milliseconds
\* in one step
TickMs == 250
\* the scenario parameters of the What-If page change at most this many times
MaxChanges == 3

----------------------------------------------------------------------------
(* Strings *)

\* '/api/v1/projects/'
PathPrefix ==
    <<"/","a","p","i","/","v","1","/","p","r","o","j","e","c","t","s","/">>
\* '/federation/peers'
FederationPeers ==
    <<"/","f","e","d","e","r","a","t","i","o","n","/","p","e","e","r","s">>
\* '/federation/aggregate'
FederationAggregate ==
    <<"/","f","e","d","e","r","a","t","i","o","n","/","a","g","g","r","e","g","a","t","e">>
\* '/exploration/complement-stats'
ExplorationComplementStats ==
    <<"/","e","x","p","l","o","r","a","t","i","o","n","/","c","o","m","p","l","e","m","e","n","t","-","s","t","a","t","s">>
\* '/exploration/conditional-tdigest'
ExplorationConditionalTDigest ==
    <<"/","e","x","p","l","o","r","a","t","i","o","n","/","c","o","n","d","i","t","i","o","n","a","l","-","t","d","i","g","e","s","t">>
\* '/models/survival/train'
ModelsSurvivalTrain ==
    <<"/","m","o","d","e","l","s","/","s","u","r","v","i","v","a","l","/","t","r","a","i","n">>
\* '/models/survival/predict'
ModelsSurvivalPredict ==
    <<"/","m","o","d","e","l","s","/","s","u","r","v","i","v","a","l","/","p","r","e","d","i","c","t">>
\* 'demo-project', the projectId every page passes
DemoProject ==
    <<"d","e","m","o","-","p","r","o","j","e","c","t">>
\* 'federation/aggregate': after the '/' that ends the path prefix it reads
\* '/federation/aggregate'
FederationAggregateTail == Tail(FederationAggregate)
\* '/health'
SlashHealth ==
    <<"/","h","e","a","l","t","h">>

\* String.prototype.includes: sub occurs in s as a contiguous run of characters
includes(s, sub) ==
    \E i \in 0..(Len(s) - Len(sub)) : SubSeq(s, i + 1, i + Len(sub)) = sub

\* the concatenation of a sequence of strings
RECURSIVE Concat(_)
Concat(ss) == IF ss = <<>> THEN <<>> ELSE Head(ss) \o Concat(Tail(ss))

\* the strings made of at most n chunks of the set chunks
ChunkStrings(chunks, n) ==
    { Concat(ss) : ss \in UNION { [1..k -> chunks] : k \in 0..n } }

\* chunks a projectId is drawn from: the pages' identifier, and pieces of the
\* REST path that a project identifier may contain
IdChunks == { DemoProject, FederationAggregateTail, ModelsSurvivalPredict }

ProjectIds == ChunkStrings(IdChunks, MaxIdChunks)

\* chunks of the paths handed to fetch directly
PathChunks ==
    { FederationAggregate, ModelsSurvivalPredict, ExplorationComplementStats,
      ExplorationConditionalTDigest, SlashHealth }

Paths == ChunkStrings(PathChunks, MaxPathChunks)

----------------------------------------------------------------------------
(* Configuration *)

\* the null of `DemConfig | null`
Null == [null |-> TRUE]

\* the fields of DemConfig
DemConfigFields == { "baseUrl", "region", "accessKey", "secretKey" }

\* the property names a caller's object may carry: Partial<DemConfig> admits,
\* by structural typing, an object variable with further properties (the
\* Settings form state carries projectId)
PropertyNames == DemConfigFields \cup { "projectId" }

\* values a caller writes into a field: a new value and the blank string
Values == { "C", "" }

\* the objects handed to updateConfig
Partials ==
    UNION { [S -> Values] : S \in { T \in SUBSET PropertyNames : Cardinality(T) <= MaxNamed } }

\* the credentials-only updates
KeyPartials == UNION { [S -> Values] : S \in SUBSET { "accessKey" } }

initializeConfig ==
    [ baseUrl   |-> "https://api.nextmatrix.demo",
      region    |-> "us-west-2",
      accessKey |-> "mock-access-key",
      secretKey |-> "mock-secret-key" ]

\* { ...a, ...b }: the own properties of a, overridden and extended by those of b
Spread(a, b) ==
    [ f \in (DOMAIN a) \cup (DOMAIN b) |-> IF f \in DOMAIN b THEN b[f] ELSE a[f] ]

\* mutant: the partial object is merged into the defaults, not into the
\* current configuration
updateConfig_ontoDefaults(cfg, partial) ==
    IF cfg # Null THEN Spread(initializeConfig, partial) ELSE cfg

\* mutant: a client without configuration takes one from the partial object
updateConfig_createsWhenAbsent(cfg, partial) ==
    IF cfg # Null THEN Spread(cfg, partial) ELSE Spread(initializeConfig, partial)

\* mutant: an update that names nothing resets the configuration
updateConfig_resetsOnEmpty(cfg, partial) ==
    IF cfg # Null
    THEN IF DOMAIN partial = {} THEN Null ELSE Spread(cfg, partial)
    ELSE cfg

\* the configuration after updateConfig(partial)
updateConfig(cfg, partial) ==
    IF cfg # Null THEN Spread(cfg, partial) ELSE cfg

isConfigured(cfg) == cfg # Null

getConfig(cfg) == cfg

----------------------------------------------------------------------------
(* The canned payloads of getMockResponse *)

\* mutant: the hazard curve has one value fewer than it has times
mockSurvival_shortHazard ==
    [ km |->
        [ t |-> <<0, 10, 20, 30, 40, 50, 60, 70, 80, 90, 100, 110, 120, 130, 140,
                  150>>,
          s |-> <<1000, 980, 950, 920, 880, 830, 780, 720, 660, 590, 520, 450,
                  380, 310, 240, 180>> ],
      hazard |->
        [ t |-> <<0, 10, 20, 30, 40, 50, 60, 70, 80, 90, 100, 110, 120, 130, 140,
                  150>>,
          h |-> <<20, 22, 25, 28, 32, 36, 41, 47, 53, 60, 68, 77, 87, 98, 111>> ],
      percentiles |-> [ p10 |-> 35, p50 |-> 89, p90 |-> 145 ],
      n |-> 1542,
      censored |-> 310 ]

\* mutant: two times of the survival curve are exchanged
mockSurvival_unsortedTimes ==
    [ km |->
        [ t |-> <<0, 10, 20, 30, 50, 40, 60, 70, 80, 90, 100, 110, 120, 130, 140,
                  150>>,
          s |-> <<1000, 980, 950, 920, 880, 830, 780, 720, 660, 590, 520, 450,
                  380, 310, 240, 180>> ],
      hazard |->
        [ t |-> <<0, 10, 20, 30, 40, 50, 60, 70, 80, 90, 100, 110, 120, 130, 140,
                  150>>,
          h |-> <<20, 22, 25, 28, 32, 36, 41, 47, 53, 60, 68, 77, 87, 98, 111,
                  125>> ],
      percentiles |-> [ p10 |-> 35, p50 |-> 89, p90 |-> 145 ],
      n |-> 1542,
      censored |-> 310 ]

mockSurvival ==
    [ km |->
        [ t |-> <<0, 10, 20, 30, 40, 50, 60, 70, 80, 90, 100, 110, 120, 130, 140,
                  150>>,
          s |-> <<1000, 980, 950, 920, 880, 830, 780, 720, 660, 590, 520, 450,
                  380, 310, 240, 180>> ],
      hazard |->
        [ t |-> <<0, 10, 20, 30, 40, 50, 60, 70, 80, 90, 100, 110, 120, 130, 140,
                  150>>,
          h |-> <<20, 22, 25, 28, 32, 36, 41, 47, 53, 60, 68, 77, 87, 98, 111,
                  125>> ],
      percentiles |-> [ p10 |-> 35, p50 |-> 89, p90 |-> 145 ],
      n |-> 1542,
      censored |-> 310 ]

\* mutant: the horizon mapping gives, for 50, the survival of the time before
mockPrediction_shiftedHorizon ==
    [ t |-> <<0, 10, 20, 30, 40, 50, 60, 70, 80, 90, 100, 110, 120, 130, 140,
                  150>>,
      s |-> <<1000, 970, 940, 900, 850, 800, 740, 680, 620, 550, 480, 420, 350,
              290, 230, 180>>,
      atHorizons |-> ("10" :> 970) @@ ("50" :> 850) @@ ("100" :> 480) @@ ("150" :> 180) ]

mockPrediction ==
    [ t |-> <<0, 10, 20, 30, 40, 50, 60, 70, 80, 90, 100, 110, 120, 130, 140,
                  150>>,
      s |-> <<1000, 970, 940, 900, 850, 800, 740, 680, 620, 550, 480, 420, 350,
              290, 230, 180>>,
      atHorizons |-> ("10" :> 970) @@ ("50" :> 800) @@ ("100" :> 480) @@ ("150" :> 180) ]

mockStats ==
    << [ feature |-> "RPM", failed_mean |-> 1805, complement_mean |-> 1652,
         delta_mean |-> 153, failed_iqr |-> <<1500, 2100>>,
         complement_iqr |-> <<1400, 1900>>, delta_iqr |-> 100 ],
       [ feature |-> "WOB", failed_mean |-> 258, complement_mean |-> 221,
         delta_mean |-> 37, failed_iqr |-> <<200, 300>>,
         complement_iqr |-> <<180, 260>>, delta_iqr |-> 20 ],
       [ feature |-> "ROP", failed_mean |-> 452, complement_mean |-> 386,
         delta_mean |-> 66, failed_iqr |-> <<350, 550>>,
         complement_iqr |-> <<300, 470>>, delta_iqr |-> 50 ] >>

mockTDigest ==
    [ failed |->
        [ bins   |-> <<140, 150, 160, 170, 180, 190, 200, 210, 220>>,
          counts |-> <<12, 28, 45, 67, 89, 76, 54, 32, 18>> ],
      survived |->
        [ bins   |-> <<130, 140, 150, 160, 170, 180, 190, 200, 210>>,
          counts |-> <<18, 42, 78, 112, 134, 98, 67, 34, 15>> ] ]

----------------------------------------------------------------------------
(* Numbers: the payloads hold JavaScript numbers, IEEE 754 doubles. A double  *)
(* is a record of its sign, the exponent e of its leading bit and its 53      *)
(* significand bits m, leading bit first: its magnitude is the sum of         *)
(* m[i] * 2^(e + 1 - i). Zero has all bits 0.                                 *)

\* the binary digits of a natural number, leading digit first
RECURSIVE IntBits(_)
IntBits(n) == IF n = 0 THEN <<>> ELSE IntBits(n \div 2) \o << n % 2 >>

\* 2^n modulo den, by repeated squaring
RECURSIVE Pow2Mod(_, _)
Pow2Mod(n, den) ==
    IF n = 0 THEN 1 % den
    ELSE LET half == Pow2Mod(n \div 2, den)
         IN  (half * half * (IF n % 2 = 1 THEN 2 ELSE 1)) % den

\* what is left of r / den after its first n binary digits, as a numerator
FracRest(r, den, n) == (r * Pow2Mod(n, den)) % den

\* the first n binary digits after the point of r / den, for r < den
FracBits(r, den, n) ==
    [ i \in 1..n |-> (2 * FracRest(r, den, i - 1)) \div den ]

\* a sequence of n zeros
Zeros(n) == [ i \in 1..n |-> 0 ]

\* the number of zeros before the first 1 of bits
LeadingZeros(bits) ==
    IF \A i \in 1..Len(bits) : bits[i] = 0 THEN Len(bits)
    ELSE (CHOOSE i \in 1..Len(bits) :
              bits[i] = 1 /\ \A j \in 1..(i - 1) : bits[j] = 0) - 1

\* bits with its leading zeros removed, and the exponent of its leading bit
Normalise(x) ==
    [ x EXCEPT !.bits = SubSeq(x.bits, LeadingZeros(x.bits) + 1, Len(x.bits)),
               !.e = x.e - LeadingZeros(x.bits) ]

\* bits plus one in the last place; a carry out of the first place adds a bit
Increment(bits) ==
    IF \A i \in 1..Len(bits) : bits[i] = 1
    THEN << 1 >> \o Zeros(Len(bits))
    ELSE LET last == CHOOSE i \in 1..Len(bits) :
                         bits[i] = 0 /\ \A j \in (i + 1)..Len(bits) : bits[j] = 1
         IN  SubSeq(bits, 1, last - 1) \o << 1 >> \o Zeros(Len(bits) - last)

\* round to nearest, ties to even, to 53 significant bits: x holds the bits
\* of a magnitude, the exponent of the first and whether more than the bits
\* follows (sticky)
RoundToDouble(neg, x) ==
    LET n    == Normalise(x)
        keep == SubSeq(n.bits, 1, 53)
        tail == SubSeq(n.bits, 55, Len(n.bits))
        up   == /\ Len(n.bits) >= 54
                /\ n.bits[54] = 1
                /\ \/ n.sticky
                   \/ \E i \in 1..Len(tail) : tail[i] = 1
                   \/ keep[53] = 1
        inc  == Increment(keep)
    IN  IF n.bits = <<>>
        THEN [ neg |-> FALSE, e |-> 0, m |-> Zeros(53) ]
        ELSE IF Len(n.bits) <= 53
        THEN [ neg |-> neg, e |-> n.e, m |-> n.bits \o Zeros(53 - Len(n.bits)) ]
        ELSE IF ~up
        THEN [ neg |-> neg, e |-> n.e, m |-> keep ]
        ELSE IF Len(inc) = 53
        THEN [ neg |-> neg, e |-> n.e, m |-> inc ]
        ELSE [ neg |-> neg, e |-> n.e + 1, m |-> SubSeq(inc, 1, 53) ]

\* the value of a decimal literal with one digit after the point, given in
\* tenths: the double nearest to tenths / 10
NumberLiteral(tenths) ==
    RoundToDouble(FALSE,
        [ bits   |-> IntBits(tenths \div 10) \o FracBits(tenths % 10, 10, 60),
          e      |-> Len(IntBits(tenths \div 10)) - 1,
          sticky |-> FracRest(tenths % 10, 10, 60) # 0 ])

\* the borrow that the places after place i take from it, in a - b: they
\* borrow when what a holds there is less than what b holds there
BorrowInto(a, b, i) ==
    IF \E j \in (i + 1)..Len(a) :
           /\ a[j] < b[j]
           /\ \A k \in (i + 1)..(j - 1) : a[k] = b[k]
    THEN 1 ELSE 0

\* a - b on bit sequences of equal length with a >= b, leading bit first
SubBits(a, b) ==
    [ i \in 1..Len(a) |-> (a[i] - b[i] - BorrowInto(a, b, i) + 2) % 2 ]

\* a < b on bit sequences of equal length
LessBits(a, b) ==
    \E i \in 1..Len(a) :
        /\ a[i] < b[i]
        /\ \A j \in 1..(i - 1) : a[j] = b[j]

\* the significand of x as fixed point from the place top down to the place
\* bottom
Aligned(x, top, bottom) ==
    Zeros(top - x.e) \o x.m \o Zeros((x.e - 52) - bottom)

\* a - b of two doubles that are not negative: the exact difference, rounded
DoubleSub(a, b) ==
    LET top    == IF a.e > b.e THEN a.e ELSE b.e
        bottom == (IF a.e < b.e THEN a.e ELSE b.e) - 52
        x      == Aligned(a, top, bottom)
        y      == Aligned(b, top, bottom)
    IN  IF LessBits(x, y)
        THEN RoundToDouble(TRUE, [ bits |-> SubBits(y, x), e |-> top, sticky |-> FALSE ])
        ELSE RoundToDouble(FALSE, [ bits |-> SubBits(x, y), e |-> top, sticky |-> FALSE ])

----------------------------------------------------------------------------
(* Response wrappers *)

\* { data: value }; type is the TypeScript type the code declares for the
\* payload literal, carried so that payloads of different shape can be told apart
DataResponse(type, value) == [ data |-> [ type |-> type, value |-> value ] ]

\* { error: message }
ErrorResponse(message) == [ error |-> message ]

\* the message of the TypeError that `new Headers(init)` throws for an
\* ill-formed init (the wording is the engine's)
HeadersTypeError == "Headers: invalid name or value"

\* the message of the TypeError that JSON.stringify throws for a value it
\* cannot serialise (a cyclic object, a BigInt)
StringifyTypeError == "Converting circular structure to JSON"

----------------------------------------------------------------------------
(* Dispatch *)

\* mutant: the predict branch is tried before the aggregate branch
getMockResponse_predictFirst(path, options) ==
    IF includes(path, ModelsSurvivalPredict)
    THEN DataResponse("PredictionData", mockPrediction)
    ELSE IF includes(path, FederationAggregate)
    THEN DataResponse("SurvivalData", mockSurvival)
    ELSE IF includes(path, ExplorationComplementStats)
    THEN DataResponse("ComplementStats[]", mockStats)
    ELSE IF includes(path, ExplorationConditionalTDigest)
    THEN DataResponse("TDigestData", mockTDigest)
    ELSE ErrorResponse("Mock endpoint not implemented")

getMockResponse(path, options) ==
    IF includes(path, FederationAggregate)
    THEN DataResponse("SurvivalData", mockSurvival)
    ELSE IF includes(path, ModelsSurvivalPredict)
    THEN DataResponse("PredictionData", mockPrediction)
    ELSE IF includes(path, ExplorationComplementStats)
    THEN DataResponse("ComplementStats[]", mockStats)
    ELSE IF includes(path, ExplorationConditionalTDigest)
    THEN DataResponse("TDigestData", mockTDigest)
    ELSE ErrorResponse("Mock endpoint not implemented")

----------------------------------------------------------------------------
(* Requests *)

\* RequestInit values: headers is "none" (absent or well-formed) or "invalid"
\* (an init that the Headers constructor rejects)
RequestInits == [ headers : { "none", "invalid" } ]

\* a value handed to JSON.stringify: one it serialises, or one it throws on
BodyValues == { "plain", "cyclic" }

\* the horizons the What-If page asks predictions for
WhatIfHorizons == <<10, 50, 100, 150>>

\* the horizon lists handed to predictSurvival: the page's, and another
HorizonLists == { WhatIfHorizons, <<20, 60>> }

\* JSON.stringify(value): the serialised text, or a thrown TypeError
JSONstringify(value) ==
    IF value = "cyclic"
    THEN [ threw |-> TRUE, message |-> StringifyTypeError ]
    ELSE [ threw |-> FALSE, text |-> "json" ]

\* the options of the POST methods: no headers, the serialised body
PostOptions == [ headers |-> "none" ]

\* mutant: signRequest refuses to sign with a blank access key
signRequest_throwsOnBlankKey(cfg, options) ==
    IF options.headers = "invalid"
    THEN [ threw |-> TRUE, message |-> HeadersTypeError ]
    ELSE IF cfg.accessKey = ""
    THEN [ threw |-> TRUE, message |-> "Missing credentials" ]
    ELSE [ threw |-> FALSE,
           Authorization |-> <<"AWS4-HMAC-SHA256 Credential=", cfg.accessKey, "/...">>,
           ContentType |-> "application/json" ]

\* signRequest(url, options): the options with the three headers set, or the
\* TypeError of `new Headers(options.headers)`; X-Amz-Date is the wall clock
\* and is never read
signRequest(cfg, options) ==
    IF options.headers = "invalid"
    THEN [ threw |-> TRUE, message |-> HeadersTypeError ]
    ELSE [ threw |-> FALSE,
           Authorization |-> <<"AWS4-HMAC-SHA256 Credential=", cfg.accessKey, "/...">>,
           ContentType |-> "application/json" ]

\* what the await of a promise delivers: the thrown error, or the value the
\* promise resolved with (signedOptions keeps the headers signRequest built
\* from the configuration of the moment of the call)
Awaited(promise) == promise

\* mutant: fetch returns an error response while the access key is blank
fetch_rejectsBlankKey(cfg, path, options) ==
    IF cfg = Null
    THEN [ pc |-> "resolved", path |-> path,
           response |-> ErrorResponse("DEM client not configured. Please check environment variables.") ]
    ELSE IF cfg.accessKey = ""
    THEN [ pc |-> "resolved", path |-> path,
           response |-> ErrorResponse("Missing credentials") ]
    ELSE [ pc |-> "await", path |-> path, options |-> options,
           signedOptions |-> Awaited(signRequest(cfg, options)) ]

\* fetch up to its first suspension: the not-configured return, or the frame
\* suspended at `await this.signRequest(url, options)`
fetch(cfg, path, options) ==
    IF cfg = Null
    THEN [ pc |-> "resolved", path |-> path,
           response |-> ErrorResponse("DEM client not configured. Please check environment variables.") ]
    ELSE [ pc |-> "await", path |-> path, options |-> options,
           signedOptions |-> Awaited(signRequest(cfg, options)) ]

\* fetch from the await to its return: the catch block when signRequest threw,
\* the mock response otherwise
fetchResume(frame) ==
    [ pc |-> "resolved", path |-> frame.path,
      response |->
        IF frame.signedOptions.threw
        THEN ErrorResponse(frame.signedOptions.message)
        ELSE getMockResponse(frame.path, frame.options) ]

\* an async method whose body threw before fetch was called: a rejected promise
Rejected(message) == [ pc |-> "rejected", reason |-> message ]

\* a POST method: the body is serialised, then fetch is called
Post(cfg, path, body) ==
    IF JSONstringify(body).threw
    THEN Rejected(JSONstringify(body).message)
    ELSE fetch(cfg, path, PostOptions)

getFederationPeers(cfg, projectId) ==
    fetch(cfg, PathPrefix \o projectId \o FederationPeers, [ headers |-> "none" ])

aggregateData(cfg, projectId, cohort) ==
    Post(cfg, PathPrefix \o projectId \o FederationAggregate, cohort)

getComplementStats(cfg, projectId, cohort) ==
    Post(cfg, PathPrefix \o projectId \o ExplorationComplementStats, cohort)

\* feature and classBy are strings and bins a number: the body always serialises
getConditionalTDigest(cfg, projectId) ==
    Post(cfg, PathPrefix \o projectId \o ExplorationConditionalTDigest, "plain")

trainSurvivalModel(cfg, projectId, cohort) ==
    Post(cfg, PathPrefix \o projectId \o ModelsSurvivalTrain, cohort)

\* horizons is an array of numbers: it always serialises, and nothing else
\* reads it
predictSurvival(cfg, projectId, features, horizons) ==
    Post(cfg, PathPrefix \o projectId \o ModelsSurvivalPredict, features)

----------------------------------------------------------------------------
(* State machine *)

Slots == 1..MaxSlots

\* the mark of a property that no update has named yet
Unnamed == "(not named)"

\* no page component is mounted: the client is used directly
NoPage == [ name |-> "none" ]

\* a slot no request occupies
Idle == [ call |-> [ method |-> "none" ], frame |-> [ pc |-> "idle" ] ]

\* a slot is free when it is idle or holds a settled promise, which the next
\* request replaces (responses are discarded by the caller after use)
Free(s) == calls[s].frame.pc \in { "idle", "resolved", "rejected" }

\* mutant: every request method runs initializeConfig again before it starts
Start_reinitialises(s, call, frame) ==
    /\ Free(s)
    /\ calls' = [ calls EXCEPT ![s] = [ call |-> call, frame |-> frame ] ]
    /\ config' = initializeConfig
    /\ UNCHANGED <<lastUpdate, lastNamed, page>>

\* the caller invokes a request method: the method runs to its first
\* suspension or to its return
Start(s, call, frame) ==
    /\ Free(s)
    /\ calls' = [ calls EXCEPT ![s] = [ call |-> call, frame |-> frame ] ]
    /\ UNCHANGED <<config, lastUpdate, lastNamed, page>>

Init ==
    /\ config = initializeConfig
    /\ calls = [ s \in Slots |-> Idle ]
    /\ lastUpdate = Null
    /\ lastNamed = [ f \in PropertyNames |-> Unnamed ]
    /\ page = NoPage

\* the client as the spec's test scenario has it: the configuration cleared
\* (the value of the field initialiser), or constructed as usual
InitCleared ==
    /\ config \in { Null, initializeConfig }
    /\ calls = [ s \in Slots |-> Idle ]
    /\ lastUpdate = Null
    /\ lastNamed = [ f \in PropertyNames |-> Unnamed ]
    /\ page = NoPage

UpdateConfig(partial) ==
    /\ config' = updateConfig(config, partial)
    /\ lastUpdate' = [ partial |-> partial ]
    /\ lastNamed' = [ f \in PropertyNames |->
                        IF f \in DOMAIN partial THEN partial[f] ELSE lastNamed[f] ]
    /\ UNCHANGED <<calls, page>>

GetFederationPeers(s, projectId) ==
    Start(s, [ method |-> "getFederationPeers", projectId |-> projectId ],
          getFederationPeers(config, projectId))

AggregateData(s, projectId, cohort) ==
    Start(s, [ method |-> "aggregateData", projectId |-> projectId, body |-> cohort ],
          aggregateData(config, projectId, cohort))

GetComplementStats(s, projectId, cohort) ==
    Start(s, [ method |-> "getComplementStats", projectId |-> projectId, body |-> cohort ],
          getComplementStats(config, projectId, cohort))

GetConditionalTDigest(s, projectId) ==
    Start(s, [ method |-> "getConditionalTDigest", projectId |-> projectId ],
          getConditionalTDigest(config, projectId))

TrainSurvivalModel(s, projectId, cohort) ==
    Start(s, [ method |-> "trainSurvivalModel", projectId |-> projectId, body |-> cohort ],
          trainSurvivalModel(config, projectId, cohort))

PredictSurvival(s, projectId, features, horizons) ==
    Start(s, [ method |-> "predictSurvival", projectId |-> projectId, body |-> features,
               horizons |-> horizons ],
          predictSurvival(config, projectId, features, horizons))

\* fetch called directly, with any path and options
Fetch(s, path, options) ==
    Start(s, [ method |-> "fetch", path |-> path, options |-> options ],
          fetch(config, path, options))

\* mutant: the client keeps the path of the request in a field of the shared
\* instance, and the continuation answers for the path it finds there, which
\* is that of the request in flight in the highest slot
FetchResume_sharedPath(s) ==
    /\ calls[s].frame.pc = "await"
    /\ LET t == CHOOSE t \in Slots :
                    /\ calls[t].frame.pc = "await"
                    /\ \A u \in Slots : calls[u].frame.pc = "await" => u <= t
       IN  calls' = [ calls EXCEPT ![s].frame =
                        [ fetchResume(calls[s].frame) EXCEPT
                            !.response = fetchResume(calls[t].frame).response ] ]
    /\ UNCHANGED <<config, lastUpdate, lastNamed, page>>

\* mutant: the client keeps one array of complement statistics and hands the
\* same object out on every call, so that what the Drivers page holds, and
\* has sorted in place, is what the next call answers with
FetchResume_sharedStats(s) ==
    /\ calls[s].frame.pc = "await"
    /\ calls' = [ calls EXCEPT ![s].frame =
                    IF /\ calls[s].call.method = "getComplementStats"
                       /\ page.name = "Drivers"
                       /\ page.complementStats # <<>>
                       /\ "data" \in DOMAIN fetchResume(calls[s].frame).response
                    THEN [ fetchResume(calls[s].frame) EXCEPT
                             !.response = DataResponse("ComplementStats[]",
                                                       page.complementStats) ]
                    ELSE fetchResume(calls[s].frame) ]
    /\ UNCHANGED <<config, lastUpdate, lastNamed, page>>

\* the suspended fetch continues after its await and returns
FetchResume(s) ==
    /\ calls[s].frame.pc = "await"
    /\ calls' = [ calls EXCEPT ![s].frame = fetchResume(calls[s].frame) ]
    /\ UNCHANGED <<config, lastUpdate, lastNamed, page>>

\* the request methods called in the slots of slots, with projectId drawn
\* from ids, bodies from bodies, the horizons of predictSurvival from
\* horizonLists and the paths of fetch from paths
Requests(slots, ids, bodies, horizonLists, paths) ==
    \/ \E s \in slots, id \in ids : GetFederationPeers(s, id)
    \/ \E s \in slots, id \in ids, b \in bodies : AggregateData(s, id, b)
    \/ \E s \in slots, id \in ids, b \in bodies : GetComplementStats(s, id, b)
    \/ \E s \in slots, id \in ids : GetConditionalTDigest(s, id)
    \/ \E s \in slots, id \in ids, b \in bodies : TrainSurvivalModel(s, id, b)
    \/ \E s \in slots, id \in ids, b \in bodies, h \in horizonLists :
            PredictSurvival(s, id, b, h)
    \/ \E s \in slots, path \in paths, o \in RequestInits : Fetch(s, path, o)
    \/ \E s \in slots : FetchResume(s)

\* every request with every argument, one at a time (the caller awaits each),
\* with updates of the credentials
Next ==
    \/ \E partial \in KeyPartials : UpdateConfig(partial)
    \/ Requests({ 1 }, ProjectIds, BodyValues, HorizonLists, Paths)

\* every update, with the requests the pages make, one at a time
NextConfig ==
    \/ \E partial \in Partials : UpdateConfig(partial)
    \/ Requests({ 1 }, { DemoProject }, { "plain" }, { WhatIfHorizons }, { FederationPeers })

\* the requests the pages make, several in flight at once, with updates of
\* the credentials
NextConcurrent ==
    \/ \E partial \in KeyPartials : UpdateConfig(partial)
    \/ Requests(Slots, { DemoProject }, BodyValues, { WhatIfHorizons }, { FederationPeers })

Spec == Init /\ [][Next]_vars

SpecConfig == Init /\ [][NextConfig]_vars

SpecCleared == InitCleared /\ [][Next]_vars

SpecConcurrent == Init /\ [][NextConcurrent]_vars

----------------------------------------------------------------------------
(* Vocabulary of the properties *)

\* the promise of slot s has settled
Settled(s) == calls[s].frame.pc \in { "resolved", "rejected" }

\* the promise of slot s resolved with a response wrapper
Resolved(s) == calls[s].frame.pc = "resolved"

\* the request of slot s got as far as building its path
HasPath(s) == calls[s].frame.pc \in { "await", "resolved" }

HasData(r) == "data" \in DOMAIN r

HasError(r) == "error" \in DOMAIN r /\ r.error # ""

\* the six request methods that build their path from a projectId
ApiMethods ==
    { "getFederationPeers", "aggregateData", "getComplementStats",
      "getConditionalTDigest", "trainSurvivalModel", "predictSurvival" }

\* the dispatch substrings with their payloads, in the order the spec lists them
DispatchTable ==
    << [ substring |-> FederationAggregate,
         payload   |-> DataResponse("SurvivalData", mockSurvival) ],
       [ substring |-> ModelsSurvivalPredict,
         payload   |-> DataResponse("PredictionData", mockPrediction) ],
       [ substring |-> ExplorationComplementStats,
         payload   |-> DataResponse("ComplementStats[]", mockStats) ],
       [ substring |-> ExplorationConditionalTDigest,
         payload   |-> DataResponse("TDigestData", mockTDigest) ] >>

\* the entries of the table whose substring occurs in the path
Matching(path) ==
    { i \in 1..Len(DispatchTable) : includes(path, DispatchTable[i].substring) }

\* the payload of the first entry whose substring occurs in the path
FirstMatch(path) ==
    IF Matching(path) = {}
    THEN ErrorResponse("Mock endpoint not implemented")
    ELSE DispatchTable[CHOOSE i \in Matching(path) : \A j \in Matching(path) : i <= j].payload

\* the request of slot s was given options that signRequest rejects
HeadersRejected(s) ==
    calls[s].call.method = "fetch" /\ calls[s].call.options.headers = "invalid"

----------------------------------------------------------------------------
(* Pages: the components that call the client. One page is mounted at a     *)
(* time. page holds the React state of the mounted page, the toast it       *)
(* showed last, and pending, the slots whose promise one of its handlers    *)
(* awaits. A handler runs from its start, or from its await once the        *)
(* promise has settled, to its next await or its end, and the page renders. *)

\* toast({ title, description })
Toast(title, description) == [ title |-> title, description |-> description ]

\* a handler's call of a request method in slot s: the method runs to its
\* first suspension or to its return, the handler suspends on the promise
Call(s, call, frame) ==
    /\ Free(s)
    /\ s \notin page.pending
    /\ calls' = [ calls EXCEPT ![s] = [ call |-> call, frame |-> frame ] ]

\* the client as a page finds it: constructed as usual, or with the
\* configuration cleared as in the spec's test scenario, when every request
\* is answered with the not-configured error
InitPage(mounted) ==
    /\ config \in { Null, initializeConfig }
    /\ calls = [ s \in Slots |-> Idle ]
    /\ lastUpdate = Null
    /\ lastNamed = [ f \in PropertyNames |-> Unnamed ]
    /\ page = mounted

(* Dashboard *)

\* the Dashboard as first rendered
DashboardPage ==
    [ name |-> "Dashboard", loading |-> TRUE, data |-> Null, toast |-> Null,
      pending |-> {} ]

\* loadDashboardData up to its await: run by the effect of the mount, of a
\* change of time range, bucket or model type (the selects are never
\* disabled), or by the Refresh button
LoadDashboardData(s) ==
    /\ page.name = "Dashboard"
    /\ Call(s, [ method |-> "aggregateData", projectId |-> DemoProject, body |-> "plain" ],
            aggregateData(config, DemoProject, "plain"))
    /\ page' = [ page EXCEPT !.loading = TRUE, !.pending = @ \cup { s } ]
    /\ UNCHANGED <<config, lastUpdate, lastNamed>>

\* loadDashboardData from its await to its end: the response is shown or its
\* error toasted, a rejection is caught, and finally loading is cleared
LoadDashboardDataResume(s) ==
    /\ page.name = "Dashboard"
    /\ s \in page.pending
    /\ Settled(s)
    /\ LET response == calls[s].frame.response
       IN  page' =
             [ page EXCEPT
                 !.data = IF Resolved(s) /\ HasData(response)
                          THEN [ survivalData |-> response.data.value ]
                          ELSE @,
                 !.toast = IF ~Resolved(s)
                           THEN Toast("Connection Error", "Failed to load dashboard data")
                           ELSE IF ~HasData(response) /\ HasError(response)
                           THEN Toast("Data Load Error", response.error)
                           ELSE @,
                 !.loading = FALSE,
                 !.pending = @ \ { s } ]
    /\ UNCHANGED <<config, calls, lastUpdate, lastNamed>>

(* Drivers *)

Abs(x) == IF x < 0 THEN -x ELSE x

\* mutant: the rows are sorted by rising absolute delta
sort_ascending(stats) ==
    [ k \in 1..Len(stats) |->
        stats[CHOOSE i \in 1..Len(stats) :
                 k = 1 + Cardinality({ j \in 1..Len(stats) :
                        \/ Abs(stats[j].delta_mean) < Abs(stats[i].delta_mean)
                        \/ /\ Abs(stats[j].delta_mean) = Abs(stats[i].delta_mean)
                           /\ j < i })] ]

\* complementStats.sort((a, b) => Math.abs(b.delta_mean) - Math.abs(a.delta_mean)):
\* the sort is stable, so an entry comes after those of greater absolute
\* delta and after those of equal absolute delta that stood before it
sort(stats) ==
    [ k \in 1..Len(stats) |->
        stats[CHOOSE i \in 1..Len(stats) :
                 k = 1 + Cardinality({ j \in 1..Len(stats) :
                        \/ Abs(stats[j].delta_mean) > Abs(stats[i].delta_mean)
                        \/ /\ Abs(stats[j].delta_mean) = Abs(stats[i].delta_mean)
                           /\ j < i })] ]

\* counts[index] || 0
OrZero(counts, index) == IF index \in DOMAIN counts THEN counts[index] ELSE 0

\* the rows of the distribution chart: one for each bin of failed, with the
\* counts that stand at the same index
chartData(tdigestData) ==
    IF tdigestData = Null THEN <<>>
    ELSE [ index \in 1..Len(tdigestData.failed.bins) |->
             [ bin      |-> tdigestData.failed.bins[index],
               failed   |-> OrZero(tdigestData.failed.counts, index),
               survived |-> OrZero(tdigestData.survived.counts, index) ] ]

\* the render of the Drivers page: skeletons while loading, else the rows of
\* complementStats, which the sort reorders in place; rows is what is shown
DriversRender(state) ==
    [ state EXCEPT
        !.complementStats = IF state.loading THEN @ ELSE sort(@),
        !.rows = IF state.loading THEN <<>> ELSE sort(state.complementStats),
        !.chartData = chartData(state.tdigestData) ]

\* the Drivers page as first rendered
DriversPage ==
    [ name |-> "Drivers", loading |-> TRUE, complementStats |-> <<>>,
      tdigestData |-> Null, selectedFeature |-> "RPM", toast |-> Null,
      pending |-> {}, rows |-> <<>>, chartData |-> <<>> ]

\* loadDriversData up to its first await, in the render that state describes
loadDriversData(state) ==
    /\ Call(1, [ method |-> "getComplementStats", projectId |-> DemoProject,
                 body |-> "plain" ],
            getComplementStats(config, DemoProject, "plain"))
    /\ page' = DriversRender([ state EXCEPT !.loading = TRUE, !.pending = { 1 } ])
    /\ UNCHANGED <<config, lastUpdate, lastNamed>>

\* the effect of the mount
DriversMount ==
    /\ page.name = "Drivers"
    /\ page.loading
    /\ page.pending = {}
    /\ loadDriversData(page)

\* a click on a row that is shown: the feature is selected, and the effect of
\* the change runs loadDriversData
SetSelectedFeature(feature) ==
    /\ page.name = "Drivers"
    /\ \E i \in DOMAIN page.rows : page.rows[i].feature = feature
    /\ feature # page.selectedFeature
    /\ loadDriversData([ page EXCEPT !.selectedFeature = feature ])

\* loadDriversData from its first await: the statistics are kept when the
\* response has data, and getConditionalTDigest is called; a rejection is
\* caught and logged, and finally loading is cleared
LoadDriversDataStats ==
    /\ page.name = "Drivers"
    /\ 1 \in page.pending
    /\ Settled(1)
    /\ IF Resolved(1)
       THEN /\ Call(2, [ method |-> "getConditionalTDigest", projectId |-> DemoProject ],
                    getConditionalTDigest(config, DemoProject))
            /\ page' = DriversRender(
                         [ page EXCEPT
                             !.complementStats =
                                 IF HasData(calls[1].frame.response)
                                 THEN calls[1].frame.response.data.value
                                 ELSE @,
                             !.pending = { 2 } ])
       ELSE /\ page' = DriversRender([ page EXCEPT !.loading = FALSE, !.pending = {} ])
            /\ UNCHANGED calls
    /\ UNCHANGED <<config, lastUpdate, lastNamed>>

\* loadDriversData from its second await to its end
LoadDriversDataTDigest ==
    /\ page.name = "Drivers"
    /\ 2 \in page.pending
    /\ Settled(2)
    /\ page' = DriversRender(
                 [ page EXCEPT
                     !.tdigestData =
                         IF Resolved(2) /\ HasData(calls[2].frame.response)
                         THEN calls[2].frame.response.data.value
                         ELSE @,
                     !.loading = FALSE,
                     !.pending = {} ])
    /\ UNCHANGED <<config, calls, lastUpdate, lastNamed>>

(* What-If *)

\* the delay of the debounce timer, in milliseconds
DebounceMs == 500

\* defaultScenario.parameters, the one object the page starts with and
\* resetToDefaults returns to
DefaultParameters == "defaultScenario.parameters"

\* the parameter objects that updateParameter creates, told apart by the
\* RPM they hold (160 is the RPM of the defaults, in an object of its own)
ChangedParameters == { "{ RPM: 140 }", "{ RPM: 160 }", "{ RPM: 180 }" }

\* the What-If page as first rendered, its effects not yet run. timers are
\* the pending timeouts, each with the milliseconds it has left and the
\* parameters of the render whose runPrediction it will call; awaiting is
\* the handler suspended on the promise of the pending slot; changes and
\* predictions count the changes of the parameters and the calls of
\* runPrediction
WhatIfPage ==
    [ name |-> "WhatIf", mounted |-> FALSE, parameters |-> DefaultParameters,
      baselineData |-> Null, predictionData |-> Null, loading |-> FALSE,
      toast |-> Null, pending |-> {}, awaiting |-> "none", timers |-> {},
      changes |-> 0, predictions |-> 0 ]

\* mutant: the effect sets its timer and returns no cleanup, so the timer of
\* the render before stays pending
debounce_keepsTimer(state, parameters) ==
    [ state EXCEPT
        !.parameters = parameters,
        !.timers = @ \cup { [ remaining |-> DebounceMs, parameters |-> parameters ] } ]

\* the render with new parameters: the cleanup of the effect of the render
\* before clears its timer, and the effect sets a timer of 500 ms
debounce(state, parameters) ==
    [ state EXCEPT
        !.parameters = parameters,
        !.timers = { [ remaining |-> DebounceMs, parameters |-> parameters ] } ]

\* the effects of the mount: loadBaseline up to its await, and the first
\* debounce timer
WhatIfMount ==
    /\ page.name = "WhatIf"
    /\ ~page.mounted
    /\ Call(1, [ method |-> "aggregateData", projectId |-> DemoProject, body |-> "plain" ],
            aggregateData(config, DemoProject, "plain"))
    /\ page' = [ debounce(page, page.parameters) EXCEPT
                   !.mounted = TRUE, !.pending = { 1 }, !.awaiting = "loadBaseline" ]
    /\ UNCHANGED <<config, lastUpdate, lastNamed>>

\* a slider or select moves: a new parameters object, always
UpdateParameter(parameters) ==
    /\ page.name = "WhatIf"
    /\ page.mounted
    /\ page.changes < MaxChanges
    /\ parameters # page.parameters
    /\ page' = [ debounce(page, parameters) EXCEPT !.changes = @ + 1 ]
    /\ UNCHANGED <<config, calls, lastUpdate, lastNamed>>

\* the Reset button: setCurrentScenario(defaultScenario), which changes
\* nothing when the scenario is that object already
ResetToDefaults ==
    /\ page.name = "WhatIf"
    /\ page.mounted
    /\ page.changes < MaxChanges
    /\ page.parameters # DefaultParameters
    /\ page' = [ debounce(page, DefaultParameters) EXCEPT !.changes = @ + 1 ]
    /\ UNCHANGED <<config, calls, lastUpdate, lastNamed>>

\* the milliseconds until the first pending timer is due
NextDue == CHOOSE r \in { t.remaining : t \in page.timers } :
               \A t \in page.timers : r <= t.remaining

\* time passes while a timer is pending and none is due: at most TickMs, and
\* not beyond the moment the first timer is due
Tick ==
    /\ page.name = "WhatIf"
    /\ page.timers # {}
    /\ NextDue > 0
    /\ LET ms == IF NextDue < TickMs THEN NextDue ELSE TickMs
       IN  page' = [ page EXCEPT
                       !.timers = { [ t EXCEPT !.remaining = @ - ms ] : t \in @ } ]
    /\ UNCHANGED <<config, calls, lastUpdate, lastNamed>>

\* a due timer runs its callback: runPrediction of the render that set it, up
\* to its await
TimerFires(timer) ==
    /\ page.name = "WhatIf"
    /\ timer \in page.timers
    /\ timer.remaining = 0
    /\ Call(1, [ method |-> "predictSurvival", projectId |-> DemoProject,
                 body |-> timer.parameters, horizons |-> WhatIfHorizons ],
            predictSurvival(config, DemoProject, timer.parameters, WhatIfHorizons))
    /\ page' = [ page EXCEPT
                   !.timers = @ \ { timer },
                   !.loading = TRUE,
                   !.pending = { 1 },
                   !.awaiting = "runPrediction",
                   !.predictions = @ + 1 ]
    /\ UNCHANGED <<config, lastUpdate, lastNamed>>

\* loadBaseline from its await: the data is kept; an error response is
\* dropped, a rejection logged
LoadBaselineResume ==
    /\ page.name = "WhatIf"
    /\ page.awaiting = "loadBaseline"
    /\ Settled(1)
    /\ page' = [ page EXCEPT
                   !.baselineData =
                       IF Resolved(1) /\ HasData(calls[1].frame.response)
                       THEN calls[1].frame.response.data.value
                       ELSE @,
                   !.pending = {},
                   !.awaiting = "none" ]
    /\ UNCHANGED <<config, calls, lastUpdate, lastNamed>>

\* runPrediction from its await to its end
RunPredictionResume ==
    /\ page.name = "WhatIf"
    /\ page.awaiting = "runPrediction"
    /\ Settled(1)
    /\ LET response == calls[1].frame.response
       IN  page' =
             [ page EXCEPT
                 !.predictionData = IF Resolved(1) /\ HasData(response)
                                    THEN response.data.value
                                    ELSE @,
                 !.toast = IF ~Resolved(1)
                           THEN Toast("Prediction Failed", "Unable to generate prediction")
                           ELSE IF HasData(response)
                           THEN Toast("Prediction Updated",
                                      "Survival curve updated for new parameters")
                           ELSE IF HasError(response)
                           THEN Toast("Prediction Error", response.error)
                           ELSE @,
                 !.loading = FALSE,
                 !.pending = {},
                 !.awaiting = "none" ]
    /\ UNCHANGED <<config, calls, lastUpdate, lastNamed>>

(* Settings *)

\* the states of the Settings form (the demConfig state and its setter) in
\* which the Test Connection button is enabled: the base URL as first shown,
\* retyped or cleared, a region of the select, both keys typed (the button is
\* disabled while a key is blank), the project identifier as first shown or
\* retyped
Forms ==
    [ baseUrl   : { "https://api.nextmatrix.demo", "C", "" },
      region    : { "us-east-1", "us-west-2", "eu-west-1", "ap-southeast-1" },
      accessKey : { "C", "D" },
      secretKey : { "C", "D" },
      projectId : { "demo-project", "federation/aggregate" } ]

\* the characters of a project identifier typed into the form
Chars(projectId) ==
    IF projectId = "demo-project" THEN DemoProject ELSE FederationAggregateTail

\* the Settings page as first rendered
SettingsPage ==
    [ name |-> "Settings", testing |-> FALSE, connectionStatus |-> "disconnected",
      toast |-> Null, pending |-> {} ]

\* Settings.testConnection up to its await: the whole form state is handed to
\* updateConfig, then getFederationPeers is called with the form's projectId
\* (the button is disabled while a test runs)
TestConnection(s, demConfig) ==
    /\ page.name = "Settings"
    /\ ~page.testing
    /\ Free(s)
    /\ config' = updateConfig(config, demConfig)
    /\ lastUpdate' = [ partial |-> demConfig ]
    /\ lastNamed' = [ f \in PropertyNames |-> demConfig[f] ]
    /\ calls' = [ calls EXCEPT ![s] =
                    [ call  |-> [ method |-> "getFederationPeers",
                                  projectId |-> Chars(demConfig.projectId) ],
                      frame |-> getFederationPeers(config', Chars(demConfig.projectId)) ] ]
    /\ page' = [ page EXCEPT
                   !.testing = TRUE, !.connectionStatus = "testing", !.pending = { s } ]

\* Settings.testConnection from its await to its end: connected when
\* `response.data || !response.error`, disconnected otherwise and when the
\* promise rejected; finally testing is cleared
TestConnectionResume(s) ==
    /\ page.name = "Settings"
    /\ s \in page.pending
    /\ Settled(s)
    /\ LET response == calls[s].frame.response
           ok == Resolved(s) /\ (HasData(response) \/ ~HasError(response))
       IN  page' =
             [ page EXCEPT
                 !.connectionStatus = IF ok THEN "connected" ELSE "disconnected",
                 !.toast = IF ok
                           THEN Toast("Connection Successful",
                                      "Successfully connected to NeXTMatrix DEM")
                           ELSE IF Resolved(s)
                           THEN Toast("Connection Failed", response.error)
                           ELSE Toast("Connection Error", "Unable to test connection"),
                 !.testing = FALSE,
                 !.pending = {} ]
    /\ UNCHANGED <<config, calls, lastUpdate, lastNamed>>

(* The pages' specifications *)

\* a click in the sidebar: the page unmounts and the page of the route
\* mounts with its first state; promises the old page awaited settle unseen
Navigate(mounted) ==
    /\ page.name # mounted.name
    /\ page' = mounted
    /\ UNCHANGED <<config, calls, lastUpdate, lastNamed>>

\* the pages that load when they mount, Dashboard and Drivers: the loads of
\* the Dashboard started at any moment in any free slot, the load of the
\* Drivers page at its mount and at the clicks on the rows shown
NextPages ==
    \/ \E mounted \in { DashboardPage, DriversPage } : Navigate(mounted)
    \/ \E s \in Slots : LoadDashboardData(s)
    \/ \E s \in Slots : LoadDashboardDataResume(s)
    \/ DriversMount
    \/ \E feature \in { "RPM", "WOB", "ROP" } : SetSelectedFeature(feature)
    \/ LoadDriversDataStats
    \/ LoadDriversDataTDigest
    \/ \E s \in Slots : FetchResume(s)

\* the route / shows the Dashboard
InitPages == InitPage(DashboardPage)

SpecPages == InitPages /\ [][NextPages]_vars

\* the What-If page: its mount, the changes of the parameters, the clock and
\* the timers, and the continuations of its two handlers
NextWhatIf ==
    \/ WhatIfMount
    \/ \E parameters \in ChangedParameters : UpdateParameter(parameters)
    \/ ResetToDefaults
    \/ Tick
    \/ \E timer \in page.timers : TimerFires(timer)
    \/ FetchResume(1)
    \/ LoadBaselineResume
    \/ RunPredictionResume

InitWhatIf == InitPage(WhatIfPage)

\* time passes, the event loop runs a due timer, and a settled promise runs
\* its continuation; the user is free to stop changing the parameters
SpecWhatIf ==
    /\ InitWhatIf
    /\ [][NextWhatIf]_vars
    /\ WF_vars(Tick)
    /\ WF_vars(\E timer \in page.timers : TimerFires(timer))
    /\ WF_vars(FetchResume(1))
    /\ WF_vars(LoadBaselineResume)
    /\ WF_vars(RunPredictionResume)

\* the Settings page: connection tests with every state of the form, one at a
\* time (the button is disabled while a test runs)
NextSettings ==
    \/ \E demConfig \in Forms : TestConnection(1, demConfig)
    \/ FetchResume(1)
    \/ TestConnectionResume(1)

\* the Settings page mounted, the client as constructed
InitSettings ==
    /\ config = initializeConfig
    /\ calls = [ s \in Slots |-> Idle ]
    /\ lastUpdate = Null
    /\ lastNamed = [ f \in PropertyNames |-> Unnamed ]
    /\ page = SettingsPage

SpecSettings == InitSettings /\ [][NextSettings]_vars

----------------------------------------------------------------------------
(* Properties *)

\* C1: every call of a request method settles with a response wrapper in
\* which exactly one of data and error is populated.
C1_ExactlyOneOfDataError ==
    \A s \in Slots :
        Settled(s) =>
            /\ Resolved(s)
            /\ HasData(calls[s].frame.response) # HasError(calls[s].frame.response)

\* C2: the response of every request that reaches dispatch is the payload of
\* the first entry of the dispatch table whose substring occurs in the path,
\* and the not-implemented error when none occurs: a function of the path alone.
C2_DispatchIsFirstMatch ==
    \A s \in Slots :
        (Resolved(s) /\ ~HeadersRejected(s)) =>
            calls[s].frame.response = FirstMatch(calls[s].frame.path)

\* C2 witness: a request has been answered whose path holds two different
\* dispatch substrings, so that the order of the table decided the answer.
C2_Witness ==
    \E s \in Slots :
        /\ Resolved(s)
        /\ ~HeadersRejected(s)
        /\ Cardinality(Matching(calls[s].frame.path)) >= 2
        /\ HasData(calls[s].frame.response)

\* C3: in every path a request method builds, for every projectId, at most
\* one dispatch substring occurs.
C3_AtMostOneSubstring ==
    \A s \in Slots :
        (calls[s].call.method \in ApiMethods /\ HasPath(s)) =>
            Cardinality(Matching(calls[s].frame.path)) <= 1

\* The extent of C3's failure: in every path a request method builds from a
\* projectId for which '/api/v1/projects/' followed by the projectId holds no
\* dispatch substring, at most one dispatch substring occurs.
PlainIds_AtMostOneSubstring ==
    \A s \in Slots :
        ( /\ calls[s].call.method \in ApiMethods
          /\ HasPath(s)
          /\ Matching(PathPrefix \o calls[s].call.projectId) = {} ) =>
            Cardinality(Matching(calls[s].frame.path)) <= 1

\* the two methods no responder is wired for
UnwiredMethods == { "getFederationPeers", "trainSurvivalModel" }

\* C4: for every projectId and every other argument, the response
\* that trainSurvivalModel or getFederationPeers returns has no data and the
\* error 'Mock endpoint not implemented'.
C4_UnwiredAlwaysNotImplemented ==
    \A s \in Slots :
        (calls[s].call.method \in UnwiredMethods /\ Resolved(s)) =>
            calls[s].frame.response = ErrorResponse("Mock endpoint not implemented")

\* the arguments of the request of slot s serialise into a request body
Serialises(s) ==
    "body" \in DOMAIN calls[s].call => calls[s].call.body # "cyclic"

\* The extent of C4's failure: trainSurvivalModel and getFederationPeers,
\* called with arguments that serialise and a projectId for which the path
\* holds no dispatch substring, return no data and the error 'Mock endpoint
\* not implemented'.
PlainIds_UnwiredNotImplemented ==
    \A s \in Slots :
        (calls[s].call.method \in UnwiredMethods /\ Settled(s) /\ Serialises(s)) =>
            /\ Resolved(s)
            /\ Matching(calls[s].frame.path) = {} =>
                  calls[s].frame.response = ErrorResponse("Mock endpoint not implemented")

\* the index in the dispatch table of the entry wired for a method
OwnEntry(method) ==
    CASE method = "aggregateData" -> 1
      [] method = "predictSurvival" -> 2
      [] method = "getComplementStats" -> 3
      [] method = "getConditionalTDigest" -> 4

WiredMethods ==
    { "aggregateData", "predictSurvival", "getComplementStats", "getConditionalTDigest" }

\* C5: for every projectId the response that a wired operation
\* returns is its own payload and no error, never the payload of another
\* operation.
C5_WiredReturnOwnPayload ==
    \A s \in Slots :
        (calls[s].call.method \in WiredMethods /\ Resolved(s)) =>
            calls[s].frame.response = DispatchTable[OwnEntry(calls[s].call.method)].payload

\* The extent of C5's failure: each wired operation, called with arguments
\* that serialise, returns its own payload and no error whenever no dispatch
\* substring that precedes its own in the dispatch order occurs in the path,
\* which is so for every projectId that brings no dispatch substring into
\* the path.
PlainIds_WiredReturnOwnPayload ==
    \A s \in Slots :
        (calls[s].call.method \in WiredMethods /\ Settled(s) /\ Serialises(s)) =>
            /\ Resolved(s)
            /\ (\A i \in Matching(calls[s].frame.path) : i >= OwnEntry(calls[s].call.method)) =>
                  calls[s].frame.response = DispatchTable[OwnEntry(calls[s].call.method)].payload
            /\ Matching(PathPrefix \o calls[s].call.projectId) = {} =>
                  calls[s].frame.response = DispatchTable[OwnEntry(calls[s].call.method)].payload

\* C6: no request method throws or rejects, whatever its arguments: a
\* request whose body does not serialise completes with an error response
\* that carries a message.
C6_NeverThrows ==
    \A s \in Slots :
        /\ calls[s].frame.pc # "rejected"
        /\ (Settled(s) /\ ~Serialises(s)) =>
              (Resolved(s) /\ HasError(calls[s].frame.response))

\* C7: while the configuration is absent, every request returns an error
\* response with a non-empty message and no data, without reaching dispatch.
C7_UnconfiguredAlwaysErrorResponse ==
    config = Null =>
        \A s \in Slots :
            calls[s].frame.pc # "idle" =>
                /\ Resolved(s)
                /\ HasError(calls[s].frame.response)
                /\ ~HasData(calls[s].frame.response)

\* the step is a call of updateConfig on a configured client
UpdateStep ==
    /\ config # Null
    /\ lastUpdate' # Null
    /\ (lastUpdate' # lastUpdate \/ config' # config)

\* C8: updateConfig is a field-by-field merge: every property the partial
\* object names has the given value afterwards and every other property keeps
\* the value it had; hence, after any sequence of updates, each property holds
\* the value of the last update that named it, or else its initial value.
C8_UpdateMergesFieldByField ==
    /\ [][ UpdateStep =>
             /\ DOMAIN config' = (DOMAIN config) \cup (DOMAIN lastUpdate'.partial)
             /\ \A f \in DOMAIN lastUpdate'.partial : config'[f] = lastUpdate'.partial[f]
             /\ \A f \in (DOMAIN config) \ (DOMAIN lastUpdate'.partial) : config'[f] = config[f]
         ]_vars
    /\ [](config # Null =>
            \A f \in PropertyNames :
                IF lastNamed[f] # Unnamed
                THEN f \in DOMAIN config /\ config[f] = lastNamed[f]
                ELSE IF f \in DOMAIN initializeConfig
                     THEN f \in DOMAIN config /\ config[f] = initializeConfig[f]
                     ELSE f \notin DOMAIN config)

\* C8 witness: the spec's example: the base URL was set by an earlier update,
\* the last update named the region alone, and the configuration holds both.
C8_Witness ==
    /\ lastUpdate # Null
    /\ DOMAIN lastUpdate.partial = { "region" }
    /\ config # Null
    /\ config.baseUrl = "C"
    /\ lastNamed["baseUrl"] = "C"
    /\ config.region = lastUpdate.partial.region

\* C9: updateConfig on a client without configuration changes nothing: the
\* configuration stays absent, whatever the partial object.
C9_UpdateWithoutConfigIsNoOp ==
    [][ config = Null => config' = Null ]_vars

\* C9 witness: updateConfig was called with a partial object that names a
\* property, on a client without configuration.
C9_Witness ==
    /\ config = Null
    /\ lastUpdate # Null
    /\ DOMAIN lastUpdate.partial # {}

\* C10: the configuration is never destroyed: it is non-null and
\* isConfigured() is true in every state, and no request returns the
\* not-configured error.
C10_ConfigNeverDestroyed ==
    /\ config # Null
    /\ isConfigured(config)
    /\ \A s \in Slots :
          Resolved(s) =>
              calls[s].frame.response #
                  ErrorResponse("DEM client not configured. Please check environment variables.")

\* C10 witness: a request has returned after an update that named no
\* property and an update that named some.
C10_Witness ==
    /\ lastUpdate # Null
    /\ \E f \in PropertyNames : lastNamed[f] # Unnamed
    /\ \E s \in Slots : Resolved(s)

\* C11: after any sequence of updateConfig calls with partial configuration
\* objects the stored configuration has a base URL and a region that are
\* present and not blank; only the keys may be blank.
C11_BaseUrlAndRegionPresent ==
    config # Null =>
        \A f \in { "baseUrl", "region" } : f \in DOMAIN config /\ config[f] # ""

\* C12: the stored configuration consists of exactly the four fields of
\* DemConfig in every state, also after testConnection has called
\* updateConfig: the project identifier is never part of it.
C12_ExactlyFourFields ==
    config # Null => DOMAIN config = DemConfigFields

\* C13: no step of a request method, whatever the method, its arguments and
\* its outcome, changes the stored configuration, and every step that changes
\* the configuration is a call of updateConfig, which touches no request.
C13_RequestsLeaveConfig ==
    [][ /\ calls' # calls => config' = config
        /\ config' # config =>
              /\ calls' = calls
              /\ \E partial \in KeyPartials :
                    /\ config' = updateConfig(config, partial)
                    /\ lastUpdate' = [ partial |-> partial ]
      ]_vars

\* C13 witness: a request has returned an error response while the
\* configuration holds the access key an update gave it.
C13_Witness ==
    \E s \in Slots :
        /\ Resolved(s)
        /\ HasError(calls[s].frame.response)
        /\ lastUpdate # Null
        /\ config.accessKey = "C"

InertMethods == { "aggregateData", "getComplementStats", "getConditionalTDigest" }

\* C15: two calls of aggregateData, of getComplementStats or of
\* getConditionalTDigest with the same projectId return the same response,
\* whatever their other arguments.
C15_OtherArgumentsInert ==
    \A s1 \in Slots, s2 \in Slots :
        ( /\ calls[s1].call.method \in InertMethods
          /\ calls[s2].call.method = calls[s1].call.method
          /\ calls[s2].call.projectId = calls[s1].call.projectId
          /\ Settled(s1)
          /\ Settled(s2) ) =>
            calls[s1].frame = calls[s2].frame

\* the first suspension or the return of a call issued on a client as
\* constructed
AloneStart(call) ==
    CASE call.method = "getFederationPeers" ->
            getFederationPeers(initializeConfig, call.projectId)
      [] call.method = "aggregateData" ->
            aggregateData(initializeConfig, call.projectId, call.body)
      [] call.method = "getComplementStats" ->
            getComplementStats(initializeConfig, call.projectId, call.body)
      [] call.method = "getConditionalTDigest" ->
            getConditionalTDigest(initializeConfig, call.projectId)
      [] call.method = "trainSurvivalModel" ->
            trainSurvivalModel(initializeConfig, call.projectId, call.body)
      [] call.method = "predictSurvival" ->
            predictSurvival(initializeConfig, call.projectId, call.body, call.horizons)
      [] call.method = "fetch" ->
            fetch(initializeConfig, call.path, call.options)

\* the settled promise of a call issued by itself on a client as constructed,
\* with no update of the configuration and no other request
Alone(call) ==
    IF AloneStart(call).pc = "await"
    THEN fetchResume(AloneStart(call))
    ELSE AloneStart(call)

\* the request in flight in slot s was signed with an access key that the
\* configuration no longer holds
SignedBeforeUpdate(s) ==
    /\ calls[s].frame.pc = "await"
    /\ ~calls[s].frame.signedOptions.threw
    /\ calls[s].frame.signedOptions.Authorization[2] # config.accessKey

C17_RequestsIndependent ==
    /\ [][ \A s \in Slots :
             calls'[s] # calls[s] => \A t \in Slots \ { s } : calls'[t] = calls[t] ]_vars
    /\ [](\A s \in Slots :
            /\ Settled(s) => calls[s].frame = Alone(calls[s].call)
            /\ Resolved(s) /\ ~HeadersRejected(s) =>
                  calls[s].frame.response = getMockResponse(calls[s].frame.path, PostOptions))

\* C17 witness: two requests of different methods are in flight at once, and
\* the one that started with the newer access key is in the lower slot.
C17_Witness ==
    \E s1 \in Slots, s2 \in Slots :
        /\ s1 < s2
        /\ SignedBeforeUpdate(s2)
        /\ calls[s1].frame.pc = "await"
        /\ ~SignedBeforeUpdate(s1)
        /\ calls[s1].call.method # calls[s2].call.method
        /\ calls[s1].call.method \in WiredMethods
        /\ calls[s2].call.method \in WiredMethods

\* the request of slot s is a call of aggregateData that returned data
AggregateReturned(s) ==
    /\ calls[s].call.method = "aggregateData"
    /\ Resolved(s)
    /\ HasData(calls[s].frame.response)

\* a sequence of numbers is non-decreasing from one index to the next
NonDecreasing(seq) ==
    \A i \in 1..(Len(seq) - 1) : seq[i] <= seq[i + 1]

\* C18: for every projectId, what aggregateData returns is a Survival Summary
\* in which the survival curve has as many times as values and the hazard
\* curve has as many times as values.
C18_CurvesEqualLength ==
    \A s \in Slots :
        AggregateReturned(s) =>
            /\ calls[s].frame.response.data.type = "SurvivalData"
            /\ Len(calls[s].frame.response.data.value.km.t) =
                   Len(calls[s].frame.response.data.value.km.s)
            /\ Len(calls[s].frame.response.data.value.hazard.t) =
                   Len(calls[s].frame.response.data.value.hazard.h)

\* C18 witness: aggregateData has returned data for a projectId that carries
\* the dispatch substring of another route.
C18_Witness ==
    \E s \in Slots :
        /\ AggregateReturned(s)
        /\ includes(calls[s].call.projectId, ModelsSurvivalPredict)
        /\ Len(calls[s].frame.response.data.value.km.t) > 1

\* C19: in every Survival Summary that aggregateData returns, the survival
\* times and the hazard times are each non-decreasing.
C19_TimesNonDecreasing ==
    \A s \in Slots :
        (AggregateReturned(s) /\ calls[s].frame.response.data.type = "SurvivalData") =>
            /\ NonDecreasing(calls[s].frame.response.data.value.km.t)
            /\ NonDecreasing(calls[s].frame.response.data.value.hazard.t)

\* C19 witness: aggregateData has returned a Survival Summary for the pages'
\* projectId, with time arrays of several entries.
C19_Witness ==
    \E s \in Slots :
        /\ AggregateReturned(s)
        /\ calls[s].call.projectId = DemoProject
        /\ calls[s].frame.response.data.type = "SurvivalData"
        /\ Len(calls[s].frame.response.data.value.km.t) > 2
        /\ Len(calls[s].frame.response.data.value.hazard.t) > 2

\* the response is a Prediction whose horizon mapping has exactly the keys
\* "10", "50", "100" and "150", each mapped to a probability in [0, 1]
\* (thousandths)
HasWhatIfHorizons(r) ==
    /\ HasData(r)
    /\ r.data.type = "PredictionData"
    /\ DOMAIN r.data.value.atHorizons = { "10", "50", "100", "150" }
    /\ \A k \in DOMAIN r.data.value.atHorizons :
          r.data.value.atHorizons[k] \in 0..1000

\* C20: predictSurvival invoked with horizons [10, 50, 100, 150] returns a
\* horizon mapping whose key set is exactly {"10", "50", "100", "150"}, each
\* value in [0, 1].
C20_PredictHorizonKeys ==
    \A s \in Slots :
        ( /\ calls[s].call.method = "predictSurvival"
          /\ calls[s].call.horizons = WhatIfHorizons
          /\ Resolved(s) ) =>
            HasWhatIfHorizons(calls[s].frame.response)

\* The extent of C20's failure: predictSurvival, called with features that
\* serialise and a projectId that brings no dispatch substring into the path,
\* returns that horizon mapping, whatever horizons it is given.
PlainIds_PredictHorizonKeys ==
    \A s \in Slots :
        ( /\ calls[s].call.method = "predictSurvival"
          /\ Settled(s)
          /\ Serialises(s)
          /\ Matching(PathPrefix \o calls[s].call.projectId) = {} ) =>
            /\ Resolved(s)
            /\ HasWhatIfHorizons(calls[s].frame.response)

\* the request of slot s is a call of predictSurvival that returned a
\* Prediction Result
PredictionReturned(s) ==
    /\ calls[s].call.method = "predictSurvival"
    /\ Resolved(s)
    /\ HasData(calls[s].frame.response)
    /\ calls[s].frame.response.data.type = "PredictionData"

\* the members of a sequence
Range(seq) == { seq[i] : i \in 1..Len(seq) }

\* C21: for every horizon list passed to predictSurvival, the keys of the
\* horizon mapping of the Prediction Result it returns are the string
\* encodings of the integers of that list, one key per requested horizon and
\* no other.
C21_KeysMatchRequest ==
    \A s \in Slots :
        PredictionReturned(s) =>
            DOMAIN calls[s].frame.response.data.value.atHorizons =
                { ToString(h) : h \in Range(calls[s].call.horizons) }

\* the integer a key of the horizon mapping is the string encoding of
KeyHorizon(key) == CHOOSE h \in 0..1000 : ToString(h) = key

\* C29: the Prediction Result that predictSurvival returns is consistent: for
\* every key h of the horizon mapping the time array contains h, and the
\* mapped value is the survival value at every index where the time is h.
C29_HorizonsOnTheCurve ==
    \A s \in Slots :
        PredictionReturned(s) =>
            LET p == calls[s].frame.response.data.value
            IN  \A key \in DOMAIN p.atHorizons :
                    /\ \E i \in 1..Len(p.t) : p.t[i] = KeyHorizon(key)
                    /\ \A i \in 1..Len(p.t) :
                          p.t[i] = KeyHorizon(key) => p.s[i] = p.atHorizons[key]

\* C29 witness: predictSurvival has returned a Prediction Result whose horizon
\* mapping has a key for a time in the interior of the curve.
C29_Witness ==
    \E s \in Slots :
        /\ PredictionReturned(s)
        /\ \E key \in DOMAIN calls[s].frame.response.data.value.atHorizons :
              /\ KeyHorizon(key) = 50
              /\ calls[s].frame.response.data.value.t[6] = 50

\* the request of slot s is a call of getComplementStats that returned the
\* complement statistics
ComplementStatsReturned(s) ==
    /\ calls[s].call.method = "getComplementStats"
    /\ Resolved(s)
    /\ HasData(calls[s].frame.response)
    /\ calls[s].frame.response.data.type = "ComplementStats[]"

\* C22: every entry that getComplementStats returns satisfies
\* delta_mean = failed_mean - complement_mean exactly, on the numbers the
\* entry holds.
C22_DeltaIsExactDifference ==
    \A s \in Slots :
        ComplementStatsReturned(s) =>
            \A i \in 1..Len(calls[s].frame.response.data.value) :
                LET stat == calls[s].frame.response.data.value[i]
                IN  DoubleSub(NumberLiteral(stat.failed_mean),
                              NumberLiteral(stat.complement_mean))
                        = NumberLiteral(stat.delta_mean)

\* What holds of the entries: the decimal literals of the source satisfy the
\* relation, failed_mean minus complement_mean being delta_mean in tenths,
\* and delta_mean is positive where the failed mean is the larger.
Decimal_DeltaIsDifference ==
    \A s \in Slots :
        ComplementStatsReturned(s) =>
            \A i \in 1..Len(calls[s].frame.response.data.value) :
                LET stat == calls[s].frame.response.data.value[i]
                IN  stat.failed_mean - stat.complement_mean = stat.delta_mean

\* a handler of the mounted page takes the settled promise of slot s in this
\* step
Takes(s) ==
    /\ page'.name = page.name
    /\ s \in page.pending
    /\ s \notin page'.pending

\* what a page holds of the data of the responses it received
Held(state) ==
    CASE state.name = "Dashboard" -> << state.data >>
      [] state.name = "Drivers"   -> << Range(state.complementStats), state.tdigestData >>
      [] state.name = "WhatIf"    -> << state.baselineData, state.predictionData >>
      [] OTHER                    -> << >>

\* C23: a page that receives an error response shows the error message to
\* the user and uses no data: the step in which a handler takes an error
\* response leaves the page with a toast that carries the message of the
\* response, and with the data it held before.
C23_ErrorsAreShown ==
    [][ \A s \in Slots :
          ( /\ Takes(s)
            /\ Resolved(s)
            /\ HasError(calls[s].frame.response) )
          => /\ page'.toast # Null
             /\ page'.toast.description = calls[s].frame.response.error
             /\ Held(page') = Held(page) ]_vars

\* C24: payloads are created fresh per call: every response with data is the
\* canned payload of its type in its original order, also after the Drivers
\* page has sorted in place the array it received from an earlier call.
C24_PayloadsFreshPerCall ==
    \A s \in Slots :
        (Resolved(s) /\ HasData(calls[s].frame.response)) =>
            \E i \in DOMAIN DispatchTable :
                /\ calls[s].frame.response.data.type = DispatchTable[i].payload.data.type
                /\ calls[s].frame.response = DispatchTable[i].payload

\* the Drivers page holds an array that its sort has reordered, and a later
\* call of getComplementStats has returned
C24_Witness ==
    /\ page.name = "Drivers"
    /\ page.complementStats # <<>>
    /\ page.complementStats # mockStats
    /\ 1 \in page.pending
    /\ ComplementStatsReturned(1)

\* the number of places of seq that hold entry
Count(seq, entry) == Cardinality({ i \in DOMAIN seq : seq[i] = entry })

IsPermutation(a, b) ==
    /\ Len(a) = Len(b)
    /\ \A entry \in Range(a) \cup Range(b) : Count(a, entry) = Count(b, entry)

\* C25: the rows the Drivers page shows are a permutation of the entries that
\* getComplementStats returned, and the absolute delta_mean does not rise
\* from a row to the next.
C25_RowsSortedByAbsDelta ==
    (page.name = "Drivers" /\ ~page.loading /\ ComplementStatsReturned(1)) =>
        /\ IsPermutation(page.rows, calls[1].frame.response.data.value)
        /\ \A i \in 1..(Len(page.rows) - 1) :
               Abs(page.rows[i].delta_mean) >= Abs(page.rows[i + 1].delta_mean)

\* rows are shown, in another order than the response had them
C25_Witness ==
    /\ page.name = "Drivers"
    /\ ~page.loading
    /\ ComplementStatsReturned(1)
    /\ page.rows # <<>>
    /\ page.rows # calls[1].frame.response.data.value

\* the count that one side of a Conditional Distribution reports for a bin
\* edge, 0 when the side has no such bin
CountAt(side, bin) ==
    IF \E k \in DOMAIN side.bins : side.bins[k] = bin
    THEN side.counts[CHOOSE k \in DOMAIN side.bins : side.bins[k] = bin]
    ELSE 0

\* C26: every row of the Drivers distribution chart pairs a bin edge with the
\* failed count and the survived count that the response reports for that
\* same bin edge.
C26_CountsAtTheirOwnBin ==
    page.name = "Drivers" =>
        \A i \in DOMAIN page.chartData :
            /\ page.chartData[i].failed
                   = CountAt(page.tdigestData.failed, page.chartData[i].bin)
            /\ page.chartData[i].survived
                   = CountAt(page.tdigestData.survived, page.chartData[i].bin)

\* C28: on the Dashboard loading is true while a request that
\* loadDashboardData started has not completed, also when a second load
\* started before the first finished; and the step that completes the last
\* load in flight leaves loading false.
C28_LoadingWhileInFlight ==
    /\ [](page.name = "Dashboard" =>
            ((\E s \in page.pending : ~Settled(s)) => page.loading))
    /\ [][ ( /\ page.name = "Dashboard"
             /\ page'.name = "Dashboard"
             /\ page.pending # {}
             /\ page'.pending = {} )
           => ~page'.loading ]_vars

\* a handler of the page starts a prediction in slot s in this step
PredictionStarts(s) ==
    /\ s \notin page.pending
    /\ s \in page'.pending
    /\ calls'[s].call.method = "predictSurvival"

\* the last call of the client is a prediction for the parameters the page
\* has now, and no timer is pending
Predicted ==
    /\ page.timers = {}
    /\ calls[1].call.method = "predictSurvival"
    /\ calls[1].call.body = page.parameters

\* C27: the What-If prediction is debounced. A change of the parameters
\* replaces the pending timer, so at most one timer is pending and it is the
\* one of the last change; predictSurvival is called only by a due timer,
\* with the parameters the page has then, and leaves no timer pending; and a
\* pending timer leads to that call, so that changes that follow one another
\* while a timer is pending cause exactly one call, after the last of them.
C27_PredictionDebounced ==
    /\ [](page.name = "WhatIf" =>
            /\ Cardinality(page.timers) <= 1
            /\ \A timer \in page.timers : timer.parameters = page.parameters)
    /\ [][ \A s \in Slots :
             PredictionStarts(s) =>
                 /\ \E timer \in page.timers : timer.remaining = 0
                 /\ page'.timers = {}
                 /\ calls'[s].call.body = page.parameters
                 /\ page'.parameters = page.parameters ]_vars
    /\ (page.name = "WhatIf" /\ page.timers # {}) ~> Predicted

\* the timer of the mount and two changes after it, each made while a timer
\* was pending, have caused one prediction, for the parameters of the last
C27_Witness ==
    /\ page.name = "WhatIf"
    /\ page.changes = 2
    /\ page.predictions = 1
    /\ page.parameters # DefaultParameters
    /\ Predicted

\* C30: in Settings every run of testConnection first merges the form values
\* into the client configuration, and ends with connectionStatus
\* 'disconnected' and testing false; the status 'connected' is never reached.
C30_NeverConnected ==
    page.name = "Settings" =>
        /\ page.connectionStatus # "connected"
        /\ page.testing =>
               \A f \in DOMAIN lastUpdate.partial : config[f] = lastUpdate.partial[f]
        /\ ~page.testing => page.connectionStatus = "disconnected"

====
